---- MODULE Spec2Model ----
(***************************************************************************)
(* RSSyncService (src/rss-sync-service.js): the feed synchronisation       *)
(* pipeline as a state machine.  Every invocation of an entry point is a   *)
(* frame that runs synchronously up to its next await; the collaborators   *)
(* (fetch, the store's lookup and insert, the optional loadNews hook)      *)
(* answer in separate steps, so invocations interleave at the awaits only. *)
(* getLogs and clearLogs run in one step; extractSummary is a function of  *)
(* its argument and has a specification of its own.                        *)
(***************************************************************************)
EXTENDS Integers, Sequences, FiniteSets

\* ------------------------------------------------------------- bounds
\* Invocations of entry points in one behaviour (each is a frame).
MaxCalls == 2
\* Items over all feeds together.
MaxItems == 2
\* Items over all feeds together where the diagnostic or direct calls run
\* beside syncAll.
MaxItemsDiag == 1
\* Collaborator failures (fetch, lookup, insert, reload) in one behaviour.
MaxFaults == 1
\* Words of the text a summary is extracted from.
MaxWords == 2

\* ---------------------------------------------------------- constants
\* this.logs keeps the 100 newest entries.
LogCap == 100
\* &count=20 of syncSource's request, &count=5 of testFeeds'.
SyncCount == 20
TestCount == 5
\* getLogs(limit = 50).
DefaultLimit == 50
\* extractSummary: textContent.length <= 200, substring(0, 200), lastSpace > 150.
SummaryMax == 200
SpaceFloor == 150

\* this.sources: the registry, in order.
Sources ==
    << [url |-> "hotels/feed", type |-> "hotel", establishmentType |-> "hotels"],
       [url |-> "restaurants/feed", type |-> "restaurant",
        establishmentType |-> "restaurants"] >>

NumSources == Len(Sources)

Frames == 1 .. MaxCalls

\* article.link and article.title of a raw item; a title may be absent.
Links == {"a", "b"}
Undefined == "undefined"
RawItems == [link : Links, title : {"T", Undefined}]

RECURSIVE SeqsUpTo(_, _)
SeqsUpTo(S, n) ==
    IF n = 0 THEN {<< >>}
    ELSE LET shorter == SeqsUpTo(S, n - 1)
         IN  shorter \cup {Append(q, x) : q \in {r \in shorter : Len(r) = n - 1}, x \in S}

RECURSIVE SumLen(_, _)
SumLen(f, n) == IF n = 0 THEN 0 ELSE Len(f[n]) + SumLen(f, n - 1)

\* The contents of the remote feeds: one item list per source.
RECURSIVE Flat(_, _)
Flat(f, n) == IF n = 0 THEN << >> ELSE Flat(f, n - 1) \o f[n]

\* Links are only compared for equality, so the feeds are taken up to the
\* renaming of links: the first item of the first non-empty feed has link "a".
FeedContents(n) ==
    {f \in [1 .. NumSources -> SeqsUpTo(RawItems, n)] :
        /\ SumLen(f, NumSources) <= n
        /\ Flat(f, NumSources) # << >> => Flat(f, NumSources)[1].link = "a"}

\* What the fetch of a feed and response.json() can give: the request fails
\* (transport), or a response arrives with response.ok and a body that does
\* not parse ("bad"), parses with a status other than ok ("error"), with
\* status ok and an items list ("ok"), or with status ok and no items list.
Transport == [net |-> FALSE, ok |-> FALSE, body |-> "none"]
Responses ==
    {Transport} \cup [net : {TRUE}, ok : BOOLEAN, body : {"bad", "error", "ok", "okNoItems"}]
Healthy(r) == r.net /\ r.ok /\ r.body = "ok"

Take(q, n) == SubSeq(q, 1, IF Len(q) < n THEN Len(q) ELSE n)

VARIABLES
    feed,       \* the remote feeds' contents
    store,      \* the news collection: the records, in insertion order
    logs,       \* this.logs, newest first
    isRunning,  \* this.isRunning
    frames,     \* the invocations: position, locals, result
    started,    \* invocations begun so far
    faults,     \* collaborator failures so far
    content,    \* the argument of extractSummary
    summary     \* what extractSummary returned for it

vars == <<feed, store, logs, isRunning, frames, started, faults, content, summary>>

\* ---------------------------------------------------------------- frames
NoRet == [kind |-> "none", a |-> 0, b |-> 0]

IdleFrame ==
    [op |-> "none", pc |-> "idle", src |-> 0, idx |-> 0, items |-> << >>,
     added |-> 0, processed |-> 0, totalAdded |-> 0, totalProcessed |-> 0,
     results |-> << >>, ret |-> NoRet, got |-> << >>,
     out |-> {}, trace |-> << >>, ins |-> 0, failed |-> 0, logged |-> 0,
     returned |-> << >>]

\* The machine a frame's code runs on: the frame and the instance's state.
Machine(p) ==
    [fr |-> frames[p], logs |-> logs, store |-> store, isRunning |-> isRunning]

\* Faulty variant: the log drops the entry before the new one, not the oldest.
logEvictsNewest(m, message, type) ==
    LET l == <<[message |-> message, type |-> type]>> \o m.logs
    IN  [m EXCEPT !.logs = IF Len(l) > LogCap THEN <<l[1]>> \o SubSeq(l, 3, Len(l)) ELSE l,
                  !.fr.logged = @ + 1]

\* log(message, type): unshift, then pop when more than 100 are held (logged
\* counts the entries the invocation recorded).
log(m, message, type) ==
    LET l == <<[message |-> message, type |-> type]>> \o m.logs
    IN  [m EXCEPT !.logs = IF Len(l) > LogCap THEN SubSeq(l, 1, Len(l) - 1) ELSE l,
                  !.fr.logged = @ + 1]

\* An await on a collaborator: the call is issued and the frame suspends.
Await(m, call) ==
    [m EXCEPT !.fr.pc = call[1],
              !.fr.out = @ \cup {call},
              !.fr.trace = Append(@, call)]

\* The collaborator's answer arrives: the call is no longer outstanding.
Resume(m) == [m EXCEPT !.fr.out = @ \ {m.fr.trace[Len(m.fr.trace)]}]

\* The invocation's promise settles: fulfilled with a value, or rejected.
Return(m, kind, a, b) ==
    [m EXCEPT !.fr.pc = "done", !.fr.ret = [kind |-> kind, a |-> a, b |-> b]]

Throw(m) == Return(m, "error", 0, 0)

\* ---------------------------------------------------------------- syncAll
\* Faulty variant: the finally block forgets the flag.
syncAllFinallyKeepsFlag(m) == m

\* finally { this.isRunning = false; this.updateUI(); }
syncAllFinally(m) == [m EXCEPT !.isRunning = FALSE]

\* Faulty variant: the catch rethrows without recording the failure.
syncAllCatchSilent(m) == Throw(syncAllFinally(m))

\* catch (error) { log('Erreur globale', 'error'); throw error; } finally
syncAllCatch(m) == Throw(syncAllFinally(log(m, "globalError", "error")))

\* The try block fell through: finally, then return { totalAdded, totalProcessed }.
syncAllReturn(m) ==
    LET m1 == syncAllFinally(m)
    IN  Return(m1, "totals", m1.fr.totalAdded, m1.fr.totalProcessed)

\* After the loop over the sources: the success event, then the reload hook
\* when the page defines it.
syncAllEnd(m, hasLoadNews) ==
    LET m1 == log(m, "syncDone", "success")
    IN  IF hasLoadNews THEN Await(m1, <<"reload", 0, 0>>) ELSE syncAllReturn(m1)

\* --------------------------------------------------------------- syncSource
\* Faulty variant: the loop over the sources skips one.
NextSourceSkips(src) == src + 2

\* The source's index after the one at src, in registry order.
NextSource(src) == src + 1

\* syncSource(source) up to its first await: added = processed = 0, the
\* event, the fetch.
syncSource(m, src) ==
    LET m1 == [m EXCEPT !.fr.src = src, !.fr.idx = 0, !.fr.items = << >>,
                        !.fr.added = 0, !.fr.processed = 0]
    IN  Await(log(m1, "fetching", "info"), <<"fetch", src, 0>>)

\* for (const source of this.sources): the next source, or the loop's end.
syncAllLoop(m, hasLoadNews) ==
    IF m.fr.src < NumSources
    THEN syncSource(log(m, "source", "info"), NextSource(m.fr.src))
    ELSE syncAllEnd(m, hasLoadNews)

\* return { added, processed }: to the caller of a direct call, or to
\* syncAll, which adds them to its totals and goes on with its loop.
syncSourceReturn(m, hasLoadNews) ==
    LET result == [added |-> m.fr.added, processed |-> m.fr.processed,
                   fetched |-> Len(m.fr.items)]
        m1 == [m EXCEPT !.fr.returned = Append(@, result)]
    IN  IF m.fr.op = "syncSource"
        THEN Return(m1, "result", result.added, result.processed)
        ELSE syncAllLoop([m1 EXCEPT !.fr.totalAdded = @ + result.added,
                                   !.fr.totalProcessed = @ + result.processed],
                         hasLoadNews)

\* The outer catch of syncSource: the event, then the rethrow, which a
\* direct caller sees and syncAll catches.
syncSourceCatch(m) ==
    LET m1 == log(m, "sourceError", "error")
    IN  IF m.fr.op = "syncSource" THEN Throw(m1) ELSE syncAllCatch(m1)

\* processArticle(article, source) up to its first await: the lookup by url.
processArticle(m, idx) ==
    Await([m EXCEPT !.fr.idx = idx], <<"lookup", m.fr.src, idx>>)

\* for (const article of rssData.items): the next item, or the source's
\* result event and its return.
articleLoop(m, hasLoadNews) ==
    IF m.fr.idx < Len(m.fr.items)
    THEN processArticle(m, m.fr.idx + 1)
    ELSE syncSourceReturn(log(m, "sourceDone", "info"), hasLoadNews)

\* Faulty variant: added counts every item that did not fail.
articleDoneAddsAlways(m, wasAdded, hasLoadNews) ==
    articleLoop([m EXCEPT !.fr.added = @ + 1, !.fr.processed = @ + 1], hasLoadNews)

\* processArticle returned wasAdded: if (wasAdded) added++; processed++.
articleDone(m, wasAdded, hasLoadNews) ==
    articleLoop([m EXCEPT !.fr.added = IF wasAdded THEN @ + 1 ELSE @,
                          !.fr.processed = @ + 1],
                hasLoadNews)

\* Faulty variant: a failing item is not caught by the loop and ends the source.
articleFailedAborts(m, hasLoadNews) == syncSourceCatch(m)

\* processArticle threw: its own catch records the error and rethrows, the
\* loop's catch records it again and the loop goes on.
articleFailed(m, hasLoadNews) ==
    articleLoop(log(log([m EXCEPT !.fr.failed = @ + 1], "articleError", "error"),
                    "itemError", "error"),
                hasLoadNews)

\* Faulty variant: a failed fetch counts as an empty feed and the run goes on.
syncSourceFetchedIsolated(m, r, items, hasLoadNews) ==
    articleLoop(log([m EXCEPT !.fr.items =
                        IF Healthy(r) THEN Take(items, SyncCount) ELSE << >>],
                    "found", "info"),
                hasLoadNews)

\* The fetch and response.json() answered.
syncSourceFetched(m, r, items, hasLoadNews) ==
    IF ~r.net \/ ~r.ok \/ r.body # "ok"
    THEN syncSourceCatch(m)
    ELSE articleLoop(log([m EXCEPT !.fr.items = Take(items, SyncCount)],
                         "found", "info"),
                     hasLoadNews)

\* Faulty variant: the lookup compares nothing and always comes back empty.
EmptyAlways(st, link) == TRUE

\* where('url', '==', article.link).limit(1).get(): whether it is empty.
Empty(st, link) == \A n \in 1 .. Len(st) : st[n].url # link

\* The record processArticle builds (newsData), as far as it is modelled.
NewsData(article, source) ==
    [title |-> article.title, url |-> article.link, type |-> source.type,
     source |-> source.url]

\* Faulty variant: an item whose url exists overwrites the stored record.
processArticleLookedUpdates(m, lookupOk, hasLoadNews) ==
    LET article == m.fr.items[m.fr.idx]
        record == NewsData(article, Sources[m.fr.src])
    IN  IF ~lookupOk THEN articleFailed(m, hasLoadNews)
        ELSE IF ~Empty(m.store, article.link)
        THEN articleDone([m EXCEPT !.store =
                             [n \in 1 .. Len(@) |->
                                 IF @[n].url = article.link THEN record ELSE @[n]]],
                         FALSE, hasLoadNews)
        ELSE IF article.title = Undefined THEN articleFailed(m, hasLoadNews)
        ELSE Await(m, <<"insert", m.fr.src, m.fr.idx>>)

\* The lookup answered: an existing url returns false; otherwise the record
\* is built (article.title.trim() throws on an absent title) and inserted.
processArticleLooked(m, lookupOk, hasLoadNews) ==
    LET article == m.fr.items[m.fr.idx]
    IN  IF ~lookupOk THEN articleFailed(m, hasLoadNews)
        ELSE IF ~Empty(m.store, article.link) THEN articleDone(m, FALSE, hasLoadNews)
        ELSE IF article.title = Undefined THEN articleFailed(m, hasLoadNews)
        ELSE Await(m, <<"insert", m.fr.src, m.fr.idx>>)

\* db.collection('news').add(newsData) answered.
processArticleInserted(m, insertOk, hasLoadNews) ==
    IF ~insertOk THEN articleFailed(m, hasLoadNews)
    ELSE articleDone(
            log([m EXCEPT !.store = Append(@, NewsData(m.fr.items[m.fr.idx],
                                                       Sources[m.fr.src])),
                          !.fr.ins = @ + 1],
                "added", "success"),
            TRUE, hasLoadNews)

\* Faulty variant: the run is not resumed when the reload hook answers.
syncAllReloadedWaits(m, reloadOk) == m

\* await loadNews() answered.
syncAllReloaded(m, reloadOk) ==
    IF reloadOk THEN syncAllReturn(m) ELSE syncAllCatch(m)

\* Faulty variant: syncAll without the isRunning guard.
syncAllUnguarded(m, hasLoadNews) ==
    syncAllLoop(log([m EXCEPT !.isRunning = TRUE], "syncStart", "info"), hasLoadNews)

\* syncAll() up to its first await.
syncAll(m, hasLoadNews) ==
    IF m.isRunning
    THEN Return(log(m, "alreadyRunning", "warning"), "undefined", 0, 0)
    ELSE syncAllLoop(log([m EXCEPT !.isRunning = TRUE], "syncStart", "info"),
                     hasLoadNews)

\* ---------------------------------------------------------------- testFeeds
TestResult(source, status, itemCount) ==
    [type |-> source.type, status |-> status, itemCount |-> itemCount]

\* The fetch of testFeeds for one source, up to its await.
testFetch(m, src) == Await([m EXCEPT !.fr.src = src], <<"fetch", src, 0>>)

\* for (const source of this.sources) of testFeeds: the next source, or the
\* closing event and the results.
testLoop(m) ==
    IF m.fr.src < NumSources
    THEN testFetch(m, NextSource(m.fr.src))
    ELSE Return(log(m, "testDone", "info"), "results", Len(m.fr.results), 0)

\* testFeeds() up to its first await.
testFeeds(m) == testLoop(log(m, "testStart", "info"))

\* Faulty variant: the catch of testFeeds rethrows.
testCatchRethrows(m) == Throw(log(m, "testError", "error"))

\* catch (error) of testFeeds: the event and an error result.
testCatch(m) ==
    LET m1 == log(m, "testError", "error")
    IN  [m1 EXCEPT !.fr.results =
            Append(@, TestResult(Sources[m.fr.src], "error", 0))]

\* The fetch and response.json() of testFeeds answered (response.ok is not
\* looked at).
testFetched(m, r, items) ==
    LET source == Sources[m.fr.src]
        push(st, n) == [m EXCEPT !.fr.results = Append(@, TestResult(source, st, n))]
    IN  testLoop(
            IF ~r.net \/ r.body = "bad" THEN testCatch(m)
            ELSE IF r.body = "error" THEN log(push("error", 0), "testBad", "error")
            ELSE IF r.body = "okNoItems" THEN testCatch(push("ok", 0))
            ELSE log(push("ok", Len(Take(items, TestCount))), "testOk", "info"))

\* ------------------------------------------------------------ extractSummary
\* Strings are sequences of characters.
Whitespace == {" ", "\n"}
Ellipsis == <<".", ".", ".">>
\* 'Résumé à venir'
Placeholder == <<"R", "é", "s", "u", "m", "é", " ", "à", " ", "v", "e", "n", "i", "r">>

\* The matches of /<[^>]*>/g, left to right: the first '<' with a '>' after
\* it, up to the first '>' after it; replace(..., '') removes each.
RECURSIVE StripTags(_)
StripTags(str) ==
    LET opens == {i \in 1 .. Len(str) :
                    str[i] = "<" /\ \E j \in i + 1 .. Len(str) : str[j] = ">"}
    IN  IF opens = {} THEN str
        ELSE LET open == CHOOSE i \in opens : \A k \in opens : i <= k
                 close == CHOOSE j \in open + 1 .. Len(str) :
                              str[j] = ">" /\ \A k \in open + 1 .. j - 1 : str[k] # ">"
             IN  SubSeq(str, 1, open - 1) \o StripTags(SubSeq(str, close + 1, Len(str)))

\* String.prototype.trim().
Trim(str) ==
    IF \A i \in 1 .. Len(str) : str[i] \in Whitespace THEN << >>
    ELSE LET first == CHOOSE i \in 1 .. Len(str) :
                         str[i] \notin Whitespace /\ \A j \in 1 .. i - 1 : str[j] \in Whitespace
             last == CHOOSE i \in 1 .. Len(str) :
                         str[i] \notin Whitespace
                         /\ \A j \in i + 1 .. Len(str) : str[j] \in Whitespace
         IN  SubSeq(str, first, last)

\* str.lastIndexOf(ch): the index from 0 of the last ch, or -1.
LastIndexOf(str, ch) ==
    IF \A i \in 1 .. Len(str) : str[i] # ch THEN -1
    ELSE (CHOOSE i \in 1 .. Len(str) :
              str[i] = ch /\ \A j \in i + 1 .. Len(str) : str[j] # ch) - 1

\* str.substring(0, end).
Substring0(str, end) == SubSeq(str, 1, IF end < Len(str) THEN end ELSE Len(str))

\* Faulty variant: the cut backs up to the last space from index 150 on.
extractSummaryFrom150(str) ==
    IF str = << >> THEN Placeholder
    ELSE LET textContent == Trim(StripTags(str))
             truncated == Substring0(textContent, SummaryMax)
             lastSpace == LastIndexOf(truncated, " ")
         IN  IF Len(textContent) <= SummaryMax THEN textContent
             ELSE IF lastSpace >= SpaceFloor
                  THEN Substring0(truncated, lastSpace) \o Ellipsis
                  ELSE truncated \o Ellipsis

\* extractSummary(content), content a string.
extractSummary(str) ==
    IF str = << >> THEN Placeholder
    ELSE LET textContent == Trim(StripTags(str))
             truncated == Substring0(textContent, SummaryMax)
             lastSpace == LastIndexOf(truncated, " ")
         IN  IF Len(textContent) <= SummaryMax THEN textContent
             ELSE IF lastSpace > SpaceFloor
                  THEN Substring0(truncated, lastSpace) \o Ellipsis
                  ELSE truncated \o Ellipsis

\* The contents summaries are extracted from: words of the lengths around
\* 150 and 200 separated by single spaces, bare or within white space and
\* markup, and the empty string.
WordLens == {1, 49, 50, SpaceFloor, SpaceFloor + 1, SummaryMax - 1, SummaryMax, SummaryMax + 1}
Word(n) == [i \in 1 .. n |-> "x"]
RECURSIVE Words(_)
Words(lens) ==
    IF Len(lens) = 1 THEN Word(lens[1])
    ELSE Words(SubSeq(lens, 1, Len(lens) - 1)) \o <<" ">> \o Word(lens[Len(lens)])
Texts == {Words(lens) : lens \in SeqsUpTo(WordLens, MaxWords) \ {<< >>}}
Markup == <<"<", "x", " ", "x", ">">>
Contents ==
    {<< >>, <<" ">>, Markup}
    \cup Texts
    \cup {<<" ", "\n">> \o t \o <<" ">> : t \in Texts}
    \cup {Markup \o <<" ">> \o t \o Markup : t \in Texts}
    \cup {<<t[1]>> \o Markup \o Tail(t) : t \in Texts}
    \cup {<<">">> \o t \o <<"<", "x">> : t \in Texts}

\* ------------------------------------------------------- getLogs, clearLogs
\* The limits getLogs is called with: none (the default), and values below,
\* at and above what the log can hold.
Limits == {0, 1, DefaultLimit, LogCap, LogCap + 1}

\* getLogs(limit): this.logs.slice(0, limit).
getLogs(m, limit) == Return([m EXCEPT !.fr.got = Take(m.logs, limit)], "logs", limit, 0)

\* Faulty variant: clearLogs records the event without emptying the log.
clearLogsKeeps(m) == Return(log(m, "cleared", "info"), "undefined", 0, 0)

\* clearLogs(): this.logs = []; this.log('Logs supprimés').
clearLogs(m) == Return(log([m EXCEPT !.logs = << >>], "cleared", "info"), "undefined", 0, 0)

\* ------------------------------------------------------------------ steps
\* No summary has been extracted.
NoSummary == [returned |-> FALSE, text |-> << >>]

InitWith(feeds) ==
    /\ feed \in feeds
    /\ store = << >>
    /\ logs = << >>
    /\ isRunning = FALSE
    /\ frames = [p \in Frames |-> IdleFrame]
    /\ started = 0
    /\ faults = 0
    /\ content = << >>
    /\ summary = NoSummary

Init == InitWith(FeedContents(MaxItemsDiag))
InitSyncAll == InitWith(FeedContents(MaxItems))

\* typeof loadNews === 'function', as found when the loop over the sources
\* ends: the page may or may not define the global.
LoadNews == BOOLEAN

\* The frame's step ends: what it did to the frame and to the instance.
Commit(p, m) ==
    \E after \in {m} :
        /\ frames' = [frames EXCEPT ![p] = after.fr]
        /\ logs' = after.logs
        /\ store' = after.store
        /\ isRunning' = after.isRunning
        /\ UNCHANGED <<content, summary>>

\* A caller invokes an entry point: frame p is the next invocation.
Invoke(p, op) ==
    /\ p = started + 1
    /\ started' = p
    /\ UNCHANGED <<feed, faults>>

Fresh(p, op) == [Machine(p) EXCEPT !.fr.op = op]

SyncAllCall(p) ==
    /\ Invoke(p, "syncAll")
    /\ \E hasLoadNews \in LoadNews :
          Commit(p, syncAll(Fresh(p, "syncAll"), hasLoadNews))

\* A direct call never reaches syncAll's reload hook.
SyncSourceCall(p) ==
    /\ Invoke(p, "syncSource")
    /\ \E src \in 1 .. NumSources :
          Commit(p, syncSource(Fresh(p, "syncSource"), src))

TestFeedsCall(p) ==
    /\ Invoke(p, "testFeeds")
    /\ Commit(p, testFeeds(Fresh(p, "testFeeds")))

GetLogsCall(p) ==
    /\ Invoke(p, "getLogs")
    /\ \E limit \in Limits : Commit(p, getLogs(Fresh(p, "getLogs"), limit))

ClearLogsCall(p) ==
    /\ Invoke(p, "clearLogs")
    /\ Commit(p, clearLogs(Fresh(p, "clearLogs")))

\* A collaborator may fail while the failures allowed are not used up.
Outcome(ok) ==
    /\ ok \/ faults < MaxFaults
    /\ faults' = IF ok THEN faults ELSE faults + 1
    /\ UNCHANGED <<feed, started>>

FetchReturn(p) ==
    /\ frames[p].pc = "fetch"
    /\ frames[p].op # "testFeeds"
    /\ \E r \in Responses, hasLoadNews \in LoadNews :
          /\ Outcome(Healthy(r))
          /\ \E m \in {Resume(Machine(p))} :
                Commit(p, syncSourceFetched(m, r, feed[m.fr.src], hasLoadNews))

\* The fetch of the diagnostic answers: anything, whatever failed before.
TestFetchReturn(p) ==
    /\ frames[p].pc = "fetch"
    /\ frames[p].op = "testFeeds"
    /\ \E r \in Responses, m \in {Resume(Machine(p))} :
          Commit(p, testFetched(m, r, feed[m.fr.src]))
    /\ UNCHANGED <<feed, started, faults>>

LookupReturn(p) ==
    /\ frames[p].pc = "lookup"
    /\ \E ok \in BOOLEAN, hasLoadNews \in LoadNews :
          /\ Outcome(ok)
          /\ \E m \in {Resume(Machine(p))} :
                Commit(p, processArticleLooked(m, ok, hasLoadNews))

InsertReturn(p) ==
    /\ frames[p].pc = "insert"
    /\ \E ok \in BOOLEAN, hasLoadNews \in LoadNews :
          /\ Outcome(ok)
          /\ \E m \in {Resume(Machine(p))} :
                Commit(p, processArticleInserted(m, ok, hasLoadNews))

ReloadReturn(p) ==
    /\ frames[p].pc = "reload"
    /\ \E ok \in BOOLEAN :
          /\ Outcome(ok)
          /\ \E m \in {Resume(Machine(p))} :
                Commit(p, syncAllReloaded(m, ok))

\* The collaborators' answers.
Answer(p) == FetchReturn(p) \/ LookupReturn(p) \/ InsertReturn(p) \/ ReloadReturn(p)

\* Only syncAll is called: the store has no other writer.
NextSyncAll == \E p \in Frames : SyncAllCall(p) \/ Answer(p)
SpecSyncAll == InitSyncAll /\ [][NextSyncAll]_vars

\* One syncAll run and one call of the diagnostic testFeeds, in either order
\* and interleaved at will.
NotYet(op) == \A q \in Frames : frames[q].op # op
SyncAllOnce(p) == NotYet("syncAll") /\ SyncAllCall(p)
TestFeedsOnce(p) == NotYet("testFeeds") /\ TestFeedsCall(p)
NextDiag ==
    \E p \in Frames :
        SyncAllOnce(p) \/ TestFeedsOnce(p) \/ TestFetchReturn(p) \/ Answer(p)
SpecDiag == Init /\ [][NextDiag]_vars

\* What one run of the diagnostic in which every fetch is rejected records:
\* its opening event, one error per source and its closing event.
FailedDiagnostic ==
    LET m0 == [fr |-> [IdleFrame EXCEPT !.op = "testFeeds"], logs |-> << >>,
               store |-> << >>, isRunning |-> FALSE]
        m1 == testFetched(Resume(testFeeds(m0)), Transport, << >>)
    IN  testFetched(Resume(m1), Transport, << >>).logs

\* The log after n such runs, while they fit: each run's entries in front of
\* those of the runs before it.
History(n) ==
    LET run == FailedDiagnostic
    IN  [i \in 1 .. n * Len(run) |-> run[((i - 1) % Len(run)) + 1]]

\* Numbers of earlier runs that leave the log empty, one run short of full,
\* and full.
PerRun == NumSources + 2
EarlierRuns == {0, LogCap \div PerRun - 1, LogCap \div PerRun}

\* The service after earlier diagnostic runs have settled.
InitLog ==
    /\ feed \in FeedContents(MaxItemsDiag)
    /\ store = << >>
    /\ logs \in {History(n) : n \in EarlierRuns}
    /\ isRunning = FALSE
    /\ frames = [p \in Frames |-> IdleFrame]
    /\ started = 0
    /\ faults = 0
    /\ content = << >>
    /\ summary = NoSummary

\* The operations that write or read the log, after the earlier runs: one
\* more asynchronous operation (a syncAll run, a direct syncSource call or a
\* diagnostic), with getLogs and clearLogs called once each at any moment of
\* it.
Asynchronous == {"syncAll", "syncSource", "testFeeds"}
NoneYet == \A q \in Frames : frames[q].op \notin Asynchronous
SyncAllNext(p) == NoneYet /\ SyncAllCall(p)
SyncSourceNext(p) == NoneYet /\ SyncSourceCall(p)
TestFeedsNext(p) == NoneYet /\ TestFeedsCall(p)
GetLogsOnce(p) == NotYet("getLogs") /\ GetLogsCall(p)
ClearLogsOnce(p) == NotYet("clearLogs") /\ ClearLogsCall(p)
NextLog ==
    \E p \in Frames :
        \/ SyncAllNext(p) \/ SyncSourceNext(p) \/ TestFeedsNext(p)
        \/ GetLogsOnce(p) \/ ClearLogsOnce(p)
        \/ TestFetchReturn(p) \/ Answer(p)
SpecLog == InitLog /\ [][NextLog]_vars

\* One syncAll run, with every external call answered in the end: by a
\* result or by a failure.
NextRun == \E p \in Frames : SyncAllOnce(p) \/ Answer(p)
SpecRunFair == InitSyncAll /\ [][NextRun]_vars /\ \A p \in Frames : WF_vars(Answer(p))

\* Direct calls of syncSource, beside one another and beside one syncAll run.
NextDirect == \E p \in Frames : SyncAllOnce(p) \/ SyncSourceCall(p) \/ Answer(p)
SpecDirect == Init /\ [][NextDirect]_vars

\* extractSummary applied to one content.
InitSummary ==
    /\ feed = [src \in 1 .. NumSources |-> << >>]
    /\ store = << >>
    /\ logs = << >>
    /\ isRunning = FALSE
    /\ frames = [p \in Frames |-> IdleFrame]
    /\ started = 0
    /\ faults = 0
    /\ content \in Contents
    /\ summary = NoSummary

ExtractSummary ==
    /\ ~summary.returned
    /\ summary' = [returned |-> TRUE, text |-> extractSummary(content)]
    /\ UNCHANGED <<feed, store, logs, isRunning, frames, started, faults, content>>

NextSummary == ExtractSummary
SpecSummary == InitSummary /\ [][NextSummary]_vars

\* Every entry point.
Next ==
    \E p \in Frames :
        \/ SyncAllCall(p) \/ SyncSourceCall(p) \/ TestFeedsCall(p)
        \/ GetLogsCall(p) \/ ClearLogsCall(p)
        \/ TestFetchReturn(p) \/ Answer(p)
Spec == Init /\ [][Next]_vars

\* ================================================================ properties
InFlight(p) == frames[p].pc \in {"fetch", "lookup", "insert", "reload"}

\* Frame p is invoked in this step.
Called(p, op) == frames[p].pc = "idle" /\ frames'[p].pc # "idle" /\ frames'[p].op = op

\* Frame p takes a step.
Steps(p) == frames'[p] # frames[p]

\* The entries this step recorded, newest first (the log is below its
\* capacity in every state of these specifications).
NewEntries == SubSeq(logs', 1, Len(logs') - Len(logs))
OldEntries == SubSeq(logs', Len(logs') - Len(logs) + 1, Len(logs'))

Entry(message, type) == [message |-> message, type |-> type]

IsPrefix(q, r) == Len(q) <= Len(r) /\ SubSeq(r, 1, Len(q)) = q

\* ------------------------------------------------------------------- C1
\* C1: a syncAll call made while isRunning is true issues no fetch, no
\* lookup and no insert, does not throw, records exactly one event, of
\* severity warning, and returns no totals.
C1_SingleFlightRejection ==
    [][\A p \in Frames :
          (Called(p, "syncAll") /\ isRunning) =>
              /\ frames'[p].pc = "done"
              /\ frames'[p].ret = [kind |-> "undefined", a |-> 0, b |-> 0]
              /\ frames'[p].trace = << >>
              /\ frames'[p].out = {}
              /\ store' = store
              /\ isRunning'
              /\ NewEntries = << Entry("alreadyRunning", "warning") >>
              /\ OldEntries = logs
              /\ \A q \in Frames \ {p} : frames'[q] = frames[q]]_vars

\* A call was rejected while another run was still in flight.
C1_Witness ==
    \E p, q \in Frames :
        /\ frames[p].op = "syncAll" /\ frames[p].ret.kind = "undefined"
        /\ frames[q].op = "syncAll" /\ InFlight(q) /\ frames[q].pc = "insert"

\* ------------------------------------------------------------------- C2
\* C2: under syncAll invocations alone, no two records of the store have
\* the same url.
C2_StoreUrlUnique ==
    \A i, j \in 1 .. Len(store) : i # j => store[i].url # store[j].url

\* A finished run over a feed that repeats a link, with a call rejected
\* meanwhile.
C2_Witness ==
    /\ Len(feed[1]) = 2
    /\ feed[1][1].link = feed[1][2].link
    /\ \E p, q \in Frames :
          /\ frames[p].ret = [kind |-> "totals", a |-> 1, b |-> 2]
          /\ frames[q].ret.kind = "undefined"
    /\ Len(store) = 1

\* ------------------------------------------------------------------- C3
\* C3: processed counts every raw item of the fetched sequence, whether the
\* item was added, skipped as existing or failed: while the items of a source
\* are processed, processed is the number of items already gone through, and
\* a finished run's totalProcessed is the number of items of the feeds.
C3_ProcessedCountsEveryItem ==
    \A p \in Frames :
        /\ frames[p].pc \in {"lookup", "insert"} =>
              frames[p].processed = frames[p].idx - 1
        /\ (frames[p].op = "syncAll" /\ frames[p].ret.kind = "totals") =>
              frames[p].ret.b = SumLen(feed, NumSources)

\* The part of C3 the code keeps: added counts the inserts that succeeded,
\* and processed counts the items that did not fail.
C3_CountsOnlySuccesses ==
    \A p \in Frames :
        (frames[p].op = "syncAll" /\ frames[p].ret.kind = "totals") =>
            /\ frames[p].ret.a = frames[p].ins
            /\ frames[p].ret.b = SumLen(feed, NumSources) - frames[p].failed

\* ------------------------------------------------------------------- C4
Range(q) == {q[n] : n \in 1 .. Len(q)}

\* An item of frame p fails in this step.
ItemFails(p) ==
    LET f == frames[p]
    IN  /\ f.pc \in {"lookup", "insert"} /\ Steps(p)
        /\ \/ faults' = faults + 1
           \/ /\ f.pc = "lookup"
              /\ Empty(store, f.items[f.idx].link)
              /\ f.items[f.idx].title = Undefined

\* C4: when the lookup, the mapping or the insert of one item fails, error
\* events are recorded, nothing is thrown because of it, and the next item of
\* the source is attempted; every item of a source gets its lookup in order,
\* and a new item whose lookup and insert succeed is inserted however many
\* items failed before it.
C4_PerItemIsolation ==
    [][\A p \in Frames :
          LET f == frames[p]
              g == frames'[p]
              n == Len(NewEntries)
          IN  /\ ItemFails(p) =>
                    /\ g.failed = f.failed + 1
                    /\ n >= 2
                    /\ NewEntries[n] = Entry("articleError", "error")
                    /\ NewEntries[n - 1] = Entry("itemError", "error")
                    /\ g.ret.kind # "error"
                    /\ store' = store
                    /\ f.idx < Len(f.items) =>
                          /\ g.pc = "lookup" /\ g.src = f.src /\ g.idx = f.idx + 1
                          /\ g.trace = Append(f.trace, <<"lookup", f.src, f.idx + 1>>)
              /\ (g.pc \in {"lookup", "insert"}) =>
                    \A j \in 1 .. g.idx : <<"lookup", g.src, j>> \in Range(g.trace)
              /\ (f.pc = "lookup" /\ Steps(p) /\ faults' = faults
                    /\ Empty(store, f.items[f.idx].link)
                    /\ f.items[f.idx].title # Undefined) =>
                    g.pc = "insert" /\ g.idx = f.idx
              /\ (f.pc = "insert" /\ Steps(p) /\ faults' = faults) =>
                    /\ Len(store') = Len(store) + 1
                    /\ store'[Len(store')].url = f.items[f.idx].link]_vars

\* The first item of a source failed and the second was inserted.
C4_Witness ==
    \E p \in Frames :
        /\ Len(feed[1]) = 2
        /\ frames[p].failed = 1 /\ frames[p].ins = 1
        /\ Len(store) = 1
        /\ store[1].url = feed[1][2].link
        /\ <<"lookup", 1, 1>> \in Range(frames[p].trace)
        /\ <<"insert", 1, 1>> \notin Range(frames[p].trace)
        /\ <<"insert", 1, 2>> \in Range(frames[p].trace)

\* ------------------------------------------------------------------- C5
\* C5: after a syncAll run that completed with no per-item failure, a second
\* run over the same feeds inserts nothing and returns totalAdded = 0 and
\* totalProcessed = the number of items of the feeds.
C5_SecondRunIdempotent ==
    \A p, q \in Frames :
        (/\ p < q
         /\ frames[p].op = "syncAll" /\ frames[p].ret.kind = "totals"
         /\ frames[p].failed = 0
         /\ frames[q].op = "syncAll" /\ frames[q].ret.kind = "totals") =>
            /\ frames[q].ins = 0
            /\ frames[q].ret.a = 0
            /\ frames[q].ret.b = SumLen(feed, NumSources)

\* What the code keeps of C5: the second run inserts nothing and adds
\* nothing, and it counts every item when none of its own lookups fails.
C5_SecondRunAddsNothing ==
    \A p, q \in Frames :
        (/\ p < q
         /\ frames[p].op = "syncAll" /\ frames[p].ret.kind = "totals"
         /\ frames[p].failed = 0
         /\ frames[q].op = "syncAll" /\ frames[q].ret.kind = "totals") =>
            /\ frames[q].ins = 0
            /\ frames[q].ret.a = 0
            /\ frames[q].failed = 0 => frames[q].ret.b = SumLen(feed, NumSources)

\* ------------------------------------------------------------------- C6
Accepted(p) == frames[p].op = "syncAll" /\ InFlight(p)

\* C6: isRunning is true exactly when an accepted syncAll run is in flight,
\* and at most one is; accepting a call sets it, a rejected call leaves it
\* true, the end of the run by return or by throw resets it, and a call made
\* while it is false is accepted.
C6_RunningFlagLifecycle ==
    [][/\ isRunning' <=> \E p \in Frames : Accepted(p)'
       /\ Cardinality({p \in Frames : Accepted(p)'}) <= 1
       /\ \A p \in Frames :
             /\ (Called(p, "syncAll") /\ ~isRunning) => (isRunning' /\ Accepted(p)')
             /\ (Called(p, "syncAll") /\ isRunning) =>
                   (isRunning' /\ frames'[p].ret.kind = "undefined")
             /\ (Accepted(p) /\ frames'[p].pc = "done") =>
                   (~isRunning' /\ frames'[p].ret.kind \in {"totals", "error"})]_vars

\* A run ended by throwing and the next call was accepted.
C6_Witness ==
    \E p, q \in Frames :
        /\ frames[p].op = "syncAll" /\ frames[p].ret.kind = "error"
        /\ Accepted(q) /\ isRunning

\* ------------------------------------------------------------------- C7
\* The fetch of frame p fails in this step.
FetchFails(p) == frames[p].pc = "fetch" /\ Steps(p) /\ faults' = faults + 1

\* C7: when the fetch of a source fails in a syncAll run, the run ends with
\* the error and no totals, no call is issued for a later source then or
\* afterwards, and the store keeps every record it held.
C7_FatalSourceFailure ==
    [][/\ \A p \in Frames :
             /\ (frames[p].op = "syncAll" /\ FetchFails(p)) =>
                   /\ frames'[p].pc = "done"
                   /\ frames'[p].ret.kind = "error"
                   /\ frames'[p].trace = frames[p].trace
                   /\ frames'[p].out = {}
                   /\ \A c \in Range(frames'[p].trace) : c[2] <= frames[p].src
                   /\ store' = store
             /\ frames[p].pc = "done" => frames'[p] = frames[p]
       /\ IsPrefix(store, store')]_vars

\* The fetch of the second source failed after the first source's item was
\* inserted, and the record is still there.
C7_Witness ==
    \E p \in Frames :
        /\ frames[p].op = "syncAll" /\ frames[p].ret.kind = "error"
        /\ frames[p].src = 2 /\ frames[p].ins = 1
        /\ frames[p].trace[Len(frames[p].trace)] = <<"fetch", 2, 0>>
        /\ Len(store) = 1 /\ store[1].url = feed[1][1].link

\* ------------------------------------------------------------------- C8
\* The call that follows the item at (s, i) of a run.
AfterItem(s, i) ==
    IF i < Len(Take(feed[s], SyncCount)) THEN <<"lookup", s, i + 1>>
    ELSE IF s < NumSources THEN <<"fetch", s + 1, 0>>
    ELSE <<"reload", 0, 0>>

\* Call d may directly follow call c in a run.
MayFollow(c, d) ==
    CASE c[1] = "fetch"  -> d = AfterItem(c[2], 0)
      [] c[1] = "lookup" -> d = <<"insert", c[2], c[3]>> \/ d = AfterItem(c[2], c[3])
      [] c[1] = "insert" -> d = AfterItem(c[2], c[3])
      [] OTHER -> FALSE

\* C8: a syncAll run fetches the sources in registry order and goes through
\* the items of a source in the order fetched, issues the fetch of the next
\* source only after the last item of the one before, and has at most one
\* call outstanding, the one it issued last.
C8_SequentialOrder ==
    \A p \in Frames :
        frames[p].op = "syncAll" =>
            LET t == frames[p].trace
            IN  /\ t # << >> => t[1] = <<"fetch", 1, 0>>
                /\ \A n \in 1 .. Len(t) - 1 : MayFollow(t[n], t[n + 1])
                /\ Cardinality(frames[p].out) <= 1
                /\ InFlight(p) => frames[p].out = {t[Len(t)]}
                /\ ~InFlight(p) => frames[p].out = {}

\* A run went through an item of each source and the reload hook.
C8_Witness ==
    \E p \in Frames :
        /\ frames[p].op = "syncAll" /\ frames[p].ret.kind = "totals"
        /\ frames[p].trace =
              << <<"fetch", 1, 0>>, <<"lookup", 1, 1>>, <<"insert", 1, 1>>,
                 <<"fetch", 2, 0>>, <<"lookup", 2, 1>>, <<"insert", 2, 1>>,
                 <<"reload", 0, 0>> >>

\* ------------------------------------------------------------------- C9
\* The promise of frame p is rejected in this step.
Rejects(p) == frames[p].ret.kind # "error" /\ frames'[p].ret.kind = "error"

\* C9: when an error leaves syncAll, the newest entry of the log is the
\* global error event and isRunning is false; when the error came out of
\* syncSource, the source's error event was recorded before that.
C9_ErrorsLoggedBeforeRethrow ==
    [][\A p \in Frames :
          (Rejects(p) /\ frames[p].op = "syncAll") =>
              /\ ~isRunning'
              /\ OldEntries = logs
              /\ NewEntries =
                    IF frames[p].pc = "reload"
                    THEN << Entry("globalError", "error") >>
                    ELSE << Entry("globalError", "error"),
                            Entry("sourceError", "error") >>]_vars

\* An error of the reload hook left syncAll after the success event.
C9_Witness ==
    \E p \in Frames :
        /\ frames[p].op = "syncAll" /\ frames[p].ret.kind = "error"
        /\ frames[p].trace[Len(frames[p].trace)] = <<"reload", 0, 0>>
        /\ logs[1] = Entry("globalError", "error")
        /\ logs[2] = Entry("syncDone", "success")
        /\ ~isRunning

\* ------------------------------------------------------------------ C10
\* C10: testFeeds never rejects, issues fetches only, leaves the store and
\* isRunning as they are in each of its steps, and starts whatever the value
\* of isRunning.
C10_TestFeedsContained ==
    [][\A p \in Frames :
          frames'[p].op = "testFeeds" =>
              /\ frames'[p].ret.kind \in {"none", "results"}
              /\ \A c \in Range(frames'[p].trace) : c[1] = "fetch"
              /\ frames'[p].ins = 0
              /\ Steps(p) => (store' = store /\ isRunning' = isRunning)
              /\ Called(p, "testFeeds") => frames'[p].pc = "fetch"
              /\ frames'[p].pc \in {"fetch", "done"}]_vars

\* testFeeds ran to its end while a syncAll run was in flight, with the fetch
\* of one source failing in transport and the other answering a status other
\* than ok.
C10_Witness ==
    \E p, q \in Frames :
        /\ q < p /\ Accepted(q) /\ isRunning
        /\ frames[p].op = "testFeeds" /\ frames[p].ret.kind = "results"
        /\ Len(frames[p].results) = 2
        /\ frames[p].results[1].status = "error"
        /\ frames[p].results[2].status = "error"
        /\ logs[2] = Entry("testBad", "error")
        /\ logs[3] = Entry("testError", "error")

\* ------------------------------------------------------------------ C11
\* The entries frame p records in this step.
Recorded(p) == frames'[p].logged - frames[p].logged

Least(a, b) == IF a < b THEN a ELSE b

\* C11: the log never holds more than 100 entries, and every step that
\* records k entries (a clearLogs call apart) puts them in front of the
\* entries held before, which keep their order and lose only their oldest
\* ones, and only as many as exceed 100; so an entry recorded into a full log
\* evicts exactly the oldest and keeps the other 99 in order.
C11_LogBoundedNewestFirst ==
    [][/\ Len(logs) <= LogCap /\ Len(logs') <= LogCap
       /\ \A p \in Frames :
             (Steps(p) /\ frames'[p].op # "clearLogs") =>
                 LET k == Recorded(p)
                     n == Len(logs')
                 IN  /\ n = Least(Len(logs) + k, LogCap)
                     /\ k <= n
                     /\ SubSeq(logs', k + 1, n) = SubSeq(logs, 1, n - k)
                     /\ (Len(logs) = LogCap /\ k = 1) =>
                           /\ Len(logs') = LogCap
                           /\ SubSeq(logs', 2, LogCap) = SubSeq(logs, 1, LogCap - 1)]_vars

\* A syncAll run ended on a log that was full when it began: the entries of
\* the oldest earlier run are gone and the newest entry is the run's.
C11_Witness ==
    /\ Len(logs) = LogCap
    /\ logs[1] = Entry("syncDone", "success")
    /\ logs[LogCap] # Entry("testStart", "info")
    /\ \E p \in Frames :
          /\ frames[p].op = "syncAll" /\ frames[p].ret.kind = "totals"
          /\ frames[p].logged > PerRun
          /\ frames[p].ins = 1

\* ------------------------------------------------------------------ C12
\* C12: in the step of a clearLogs call, whatever the log held, the log
\* becomes the single entry that documents the clear, the call returns, and
\* isRunning, the store and the other invocations are as they were.
C12_ClearLogsLeavesOneEntry ==
    [][\A p \in Frames :
          Called(p, "clearLogs") =>
              /\ logs' = << Entry("cleared", "info") >>
              /\ frames'[p].pc = "done"
              /\ frames'[p].ret.kind = "undefined"
              /\ isRunning' = isRunning
              /\ store' = store
              /\ \A q \in Frames \ {p} : frames'[q] = frames[q]]_vars

\* clearLogs was called while a syncAll run was in flight with a record in
\* the store, and the run went on recording after it.
C12_Witness ==
    \E p, q \in Frames :
        /\ q < p
        /\ frames[p].op = "clearLogs" /\ frames[p].pc = "done"
        /\ Accepted(q) /\ isRunning /\ Len(store) = 1
        /\ Len(logs) > 1
        /\ logs[Len(logs)] = Entry("cleared", "info")

\* ------------------------------------------------------------------ C13
\* The item frame p is at already has a record in the store.
AtExisting(p) ==
    /\ frames[p].pc = "lookup"
    /\ ~Empty(store, frames[p].items[frames[p].idx].link)

\* C13: every step leaves the records of the store in place and unmodified
\* and adds at most one after them; the step that processes an item whose
\* link is the url of a stored record leaves the store as it is and issues no
\* insert for the item.
C13_InsertOnlyStore ==
    [][/\ IsPrefix(store, store')
       /\ Len(store') <= Len(store) + 1
       /\ \A p \in Frames :
             (AtExisting(p) /\ Steps(p)) =>
                 /\ store' = store
                 /\ frames'[p].ins = frames[p].ins
                 /\ <<"insert", frames[p].src, frames[p].idx>>
                       \notin Range(frames'[p].trace)]_vars

\* A run inserted an item of the first source and then went through an item
\* of the second source with the same link: the record is the first source's.
C13_Witness ==
    /\ Len(feed[1]) = 1 /\ Len(feed[2]) = 1
    /\ feed[1][1].link = feed[2][1].link
    /\ store = << NewsData(feed[1][1], Sources[1]) >>
    /\ \E p \in Frames :
          /\ frames[p].op = "syncAll" /\ frames[p].ret.kind = "totals"
          /\ frames[p].ins = 1
          /\ <<"lookup", 2, 1>> \in Range(frames[p].trace)
          /\ <<"insert", 2, 1>> \notin Range(frames[p].trace)

\* ------------------------------------------------------------------ C14
\* The tag-stripped, trimmed text of the content.
Stripped == Trim(StripTags(content))

EndsWithEllipsis(str) ==
    Len(str) >= Len(Ellipsis)
    /\ SubSeq(str, Len(str) - Len(Ellipsis) + 1, Len(str)) = Ellipsis

\* The stripped text is longer than 200: the summary is its beginning up to
\* the cut and the ellipsis, the cut being the last space of the first 200
\* characters when its index is greater than 150, and 200 otherwise.
CutAndEllipsis ==
    LET first == SubSeq(Stripped, 1, SummaryMax)
        spaces == {i \in 0 .. SummaryMax - 1 : first[i + 1] = " "}
        cut == IF \E i \in spaces : i > SpaceFloor
               THEN CHOOSE i \in spaces : \A j \in spaces : j <= i
               ELSE SummaryMax
    IN  /\ EndsWithEllipsis(summary.text)
        /\ Len(summary.text) <= SummaryMax + Len(Ellipsis)
        /\ Len(summary.text) = cut + Len(Ellipsis)
        /\ SubSeq(summary.text, 1, cut) = SubSeq(Stripped, 1, cut)

\* C14, as claimed: for every content, a stripped text of at most 200
\* characters is returned unchanged; a longer one is cut and given the
\* ellipsis.
C14_SummaryLengthContract ==
    summary.returned =>
        IF Len(Stripped) <= SummaryMax THEN summary.text = Stripped ELSE CutAndEllipsis

\* C14, amended: the same for every content that is not empty; for the empty
\* content the summary is the placeholder.
C14_SummaryOfNonEmptyContent ==
    summary.returned =>
        IF content = << >> THEN summary.text = Placeholder
        ELSE IF Len(Stripped) <= SummaryMax THEN summary.text = Stripped
        ELSE CutAndEllipsis

\* A text of 201 characters whose last space is at index 151 was cut there.
C14_Witness ==
    /\ summary.returned
    /\ Len(Stripped) = SummaryMax + 1
    /\ Stripped[SpaceFloor + 2] = " "
    /\ Len(content) > Len(Stripped)
    /\ Len(summary.text) = SpaceFloor + 1 + Len(Ellipsis)

\* ------------------------------------------------------------------ C15
\* C15: whatever the interleaving of syncAll runs and direct syncSource
\* calls, the records of the store have pairwise different urls.
C15_UrlUniqueAcrossEntryPoints ==
    Cardinality({store[n].url : n \in 1 .. Len(store)}) = Len(store)

\* ------------------------------------------------------------------ C16
TerminalEvents == {Entry("syncDone", "success"), Entry("globalError", "error")}

\* The syncAll runs that were accepted and have ended.
Ended == {q \in Frames : frames[q].op = "syncAll" /\ frames[q].ret.kind \in {"totals", "error"}}

\* C16: when every external call is answered in the end, an accepted syncAll
\* run leads to a state where it has ended, by its totals or by an error,
\* isRunning is false, and the log holds a completion or failure event for
\* each run ended so far.
C16_RunTerminates ==
    \A p \in Frames :
        Accepted(p) ~>
            /\ p \in Ended
            /\ ~isRunning
            /\ Cardinality({n \in 1 .. Len(logs) : logs[n] \in TerminalEvents})
                  >= Cardinality(Ended)

\* A run ended with its totals after an item failed on its way and the
\* reload hook answered.
C16_Witness ==
    \E p \in Ended :
        /\ frames[p].ret.kind = "totals" /\ frames[p].failed = 1
        /\ ~isRunning
        /\ frames[p].trace[Len(frames[p].trace)] = <<"reload", 0, 0>>
        /\ logs[1] \in TerminalEvents

\* ------------------------------------------------------------------ C17
\* The items the run of frame fr has counted as processed so far.
Counted(fr) ==
    fr.totalProcessed + (IF fr.pc \in {"lookup", "insert"} THEN fr.processed ELSE 0)

\* C17: the step that handles an item whose title is absent, once its lookup
\* has answered, fails the item: the per-item error event is recorded, the
\* item is counted as failed and not as processed, and no insert is issued
\* for it, whether or not the store holds a record with its link.
C17_MapBeforeGate ==
    [][\A p \in Frames :
          LET f == frames[p]
              g == frames'[p]
          IN  (/\ f.pc = "lookup" /\ Steps(p) /\ faults' = faults
               /\ f.items[f.idx].title = Undefined) =>
                  /\ g.failed = f.failed + 1
                  /\ Counted(g) = Counted(f)
                  /\ Entry("itemError", "error") \in Range(NewEntries)
                  /\ <<"insert", f.src, f.idx>> \notin Range(g.trace)]_vars

\* What the code keeps of C17: the same for an item whose link the store
\* does not hold.
C17_AbsentTitleOfNewLinkFails ==
    [][\A p \in Frames :
          LET f == frames[p]
              g == frames'[p]
          IN  (/\ f.pc = "lookup" /\ Steps(p) /\ faults' = faults
               /\ f.items[f.idx].title = Undefined
               /\ Empty(store, f.items[f.idx].link)) =>
                  /\ g.failed = f.failed + 1
                  /\ Counted(g) = Counted(f)
                  /\ Entry("itemError", "error") \in Range(NewEntries)
                  /\ <<"insert", f.src, f.idx>> \notin Range(g.trace)]_vars

\* ------------------------------------------------------------------ C18
\* How many entries of the log are the event e.
Events(e) == Cardinality({n \in 1 .. Len(logs) : logs[n] = e})

EndedWith(kind) == {p \in Ended : frames[p].ret.kind = kind}

\* The runs that recorded their success event and await the reload hook.
Reloading == {p \in Frames : Accepted(p) /\ frames[p].pc = "reload"}

\* The runs the reload hook failed.
ReloadFailed ==
    {p \in EndedWith("error") : frames[p].trace[Len(frames[p].trace)] = <<"reload", 0, 0>>}

\* C18: every accepted syncAll run records one terminal event and never
\* both: the log holds one success event for each run that returned totals
\* (or is about to, the reload hook being awaited) and none for another run,
\* and one global failure event for each run that ended with an error.
C18_OneTerminalOutcome ==
    /\ Events(Entry("syncDone", "success"))
          = Cardinality(EndedWith("totals")) + Cardinality(Reloading)
    /\ Events(Entry("globalError", "error")) = Cardinality(EndedWith("error"))

\* What the code keeps of C18: the same, but that a run the reload hook
\* failed has recorded both events and returned no totals.
C18_OneTerminalOutcomeButReload ==
    /\ Events(Entry("syncDone", "success"))
          = Cardinality(EndedWith("totals")) + Cardinality(Reloading)
              + Cardinality(ReloadFailed)
    /\ Events(Entry("globalError", "error")) = Cardinality(EndedWith("error"))

\* ------------------------------------------------------------------ C19
RECURSIVE SumOf(_, _)
SumOf(results, field) ==
    IF results = << >> THEN 0
    ELSE results[1][field] + SumOf(Tail(results), field)

RECURSIVE Inserted(_)
Inserted(n) == IF n = 0 THEN 0 ELSE frames[n].ins + Inserted(n - 1)

\* C19: under syncAll invocations alone, the store holds the records the
\* runs inserted, and a run that returned totals went through every source:
\* totalAdded is the number of its inserts and the sum of the sources' added
\* counts, totalProcessed is the sum of their processed counts, and for every
\* source added <= processed <= the number of items fetched.
C19_TotalsMatchStore ==
    /\ Len(store) = Inserted(MaxCalls)
    /\ \A p \in Frames :
          (frames[p].op = "syncAll" /\ frames[p].ret.kind = "totals") =>
              LET per == frames[p].returned
              IN  /\ Len(per) = NumSources
                  /\ frames[p].ret.a = frames[p].ins
                  /\ frames[p].ret.a = SumOf(per, "added")
                  /\ frames[p].ret.b = SumOf(per, "processed")
                  /\ \A src \in 1 .. NumSources :
                        /\ per[src].added <= per[src].processed
                        /\ per[src].processed <= per[src].fetched
                        /\ per[src].fetched = Len(Take(feed[src], SyncCount))

\* A run returned the totals of a source whose item was added and of a
\* source whose item was in the store already.
C19_Witness ==
    \E p \in Frames :
        /\ frames[p].op = "syncAll" /\ frames[p].ret = [kind |-> "totals", a |-> 1, b |-> 2]
        /\ frames[p].returned =
              << [added |-> 1, processed |-> 1, fetched |-> 1],
                 [added |-> 0, processed |-> 1, fetched |-> 1] >>
        /\ Len(store) = 1

\* ------------------------------------------------------------------ C20
\* C20: whatever the fetches of testFeeds answered, the list it returns has
\* one result for each source of the registry, in registry order.
C20_OneResultPerSource ==
    \A p \in Frames :
        (frames[p].op = "testFeeds" /\ frames[p].ret.kind = "results") =>
            /\ Len(frames[p].results) = NumSources
            /\ \A src \in 1 .. NumSources :
                  frames[p].results[src].type = Sources[src].type
====
